---- MODULE Spec2Model ----
(***************************************************************************)
(* Model of affine_bs.py: key recovery for an affine substitution cipher   *)
(* on bigrams.  The modular-arithmetic helpers, the frequency table, the   *)
(* key derivation and the decryption are operators computed the way the    *)
(* Python code computes them; gnc_keys is a state machine with one step    *)
(* per loop iteration.                                                     *)
(*                                                                         *)
(* Python values: an int is a TLA+ integer; None / a value is the empty    *)
(* tuple / a one-element tuple; a str is a tuple of one-symbol strings.    *)
(* The Cyrillic letters are written by their transliteration.              *)
(***************************************************************************)
EXTENDS Integers, Sequences, FiniteSets, TLC

VARIABLES
    fn, fn_done, fn_ret,      \* a function applied to drawn arguments
    string, f_size, check_bw, \* the arguments of gnc_keys
    pc,                       \* where gnc_keys stands
    f_list, perm, j,          \* its frequency table and loop positions
    key_1, sol,               \* the a-candidates and the position in them
    key, d_text,              \* the candidate key and its decryption
    stdout, saved,            \* what was printed; text_decrypted.in
    raised,                   \* the exception that left gnc_keys
    derived, tried            \* the get_key1 calls made; the keys decrypted with

fn_vars == <<fn, fn_done, fn_ret>>

arg_vars == <<string, f_size, check_bw>>

loop_vars == <<f_list, perm, j, key_1, sol>>

out_vars == <<stdout, saved>>

run_vars ==
    <<string, f_size, check_bw, pc, f_list, perm, j, key_1, sol, key, d_text,
      stdout, saved, raised, derived, tried>>

vars ==
    <<fn, fn_done, fn_ret, string, f_size, check_bw, pc, f_list, perm, j, key_1,
      sol, key, d_text, stdout, saved, raised, derived, tried>>

(***************************************************************************)
(* Bounds of the checked inputs.                                           *)
(***************************************************************************)
MaxArg == 9

MaxMod == 9

MaxLen == 3

MaxBlocks == 2

MaxKey == 2

MaxStride == 2

\* the default of gnc_keys' f_size
F_SIZE == 5

\* d_text[:40]
PreviewLen == 40

LongBlocks == 22

(***************************************************************************)
(* Python values and arithmetic.                                           *)
(***************************************************************************)
None == <<>>

Some(v) == <<v>>

Val(opt) == opt[1]

\* bool(x) of an Optional[int]: None and 0 are falsy
Truthy(opt) == opt # None /\ Val(opt) # 0

Abs(v) == IF v < 0 THEN -v ELSE v

\* a // b of Python ints, b # 0 (floor division)
PyFloorDiv(a, b) == IF b > 0 THEN a \div b ELSE (-a) \div (-b)

\* a % b of Python ints, b # 0 (the result has the sign of b)
PyMod(a, b) == IF b > 0 THEN a % b ELSE -((-a) % (-b))

RECURSIVE BitLen(_)
\* int.bit_length of v >= 0
BitLen(v) == IF v = 0 THEN 0 ELSE 1 + BitLen(v \div 2)

\* binary64: a float carries 53 significant bits
MantissaBits == 53

\* the exact arithmetic below works on halves of 15 bits
HalfLimb == 2 ^ 15

Limb == HalfLimb * HalfLimb

\* the exact product x * y, 0 <= x, y < Limb, as <<high, low>> in base Limb
WideMul(x, y) ==
    LET x1 == x \div HalfLimb
        x0 == x % HalfLimb
        y1 == y \div HalfLimb
        y0 == y % HalfLimb
        mid == x1 * y0 + x0 * y1
        lowsum == x0 * y0 + (mid % HalfLimb) * HalfLimb
    IN  <<x1 * y1 + (mid \div HalfLimb) + (lowsum \div Limb), lowsum % Limb>>

\* a product rounded to the nearest float, ties to even
RoundDouble(w) ==
    LET s == BitLen(w[1]) + (BitLen(Limb) - 1) - MantissaBits
    IN  IF s <= 0 THEN w
        ELSE LET unit == 2 ^ s
                 low == w[2] % unit
                 odd == (w[2] \div unit) % 2 = 1
                 up == 2 * low > unit \/ (2 * low = unit /\ odd)
                 l2 == w[2] - low + (IF up THEN unit ELSE 0)
             IN  IF l2 = Limb THEN <<w[1] + 1, 0>> ELSE <<w[1], l2>>

RECURSIVE MulModInt(_, _, _)
\* (x * y) % m exactly, 0 <= x, y and 0 < m < Limb
MulModInt(x, y, m) ==
    IF x < HalfLimb /\ y < HalfLimb THEN (x * y) % m
    ELSE IF y = 0 THEN 0
    ELSE LET dbl == (2 * MulModInt(x % m, y \div 2, m)) % m
         IN  IF y % 2 = 1 THEN (dbl + (x % m)) % m ELSE dbl

\* w % m of a wide value
WideMod(w, m) == (MulModInt(w[1] % m, Limb % m, m) + (w[2] % m)) % m

\* (x * y) % m of Python ints (exact), m > 0
IntMulMod(x, y, m) == MulModInt(PyMod(x, m), PyMod(y, m), m)

\* (x * y) % m of Python floats with integer values, y >= 0 and m > 0:
\* the product is rounded to a float, the remainder of floats is exact
FloatMulMod(x, y, m) ==
    LET r == WideMod(RoundDouble(WideMul(Abs(x), y)), m)
    IN  IF x < 0 THEN PyMod(-r, m) ELSE r

\* x / d of Python ints where d divides x: the quotient as a float (exact
\* while the quotient has at most MantissaBits bits)
TrueDiv(x, d) == PyFloorDiv(x, d)

(***************************************************************************)
(* gcd, get_inverse, solve_linear_comparison                               *)
(***************************************************************************)
RECURSIVE GcdLoop(_, _, _, _)
\* the while loop of gcd
GcdLoop(b, n, x0, x1) ==
    IF n = 0 THEN <<b, x0>>
    ELSE GcdLoop(n, PyMod(b, n), x1, x0 - PyFloorDiv(b, n) * x1)

\* gcd with the coefficients initialised the other way round
gcd_swapped(b, n) == GcdLoop(b, n, 0, 1)

gcd(b, n) == GcdLoop(b, n, 1, 0)

get_inverse(a, b) ==
    LET r == gcd(a, b)
    IN  IF r[1] = 1 THEN <<r[1], Some(PyMod(r[2], b))>> ELSE <<r[1], None>>

\* solve_linear_comparison returning only the base solution of a reduced
\* congruence
solve_base_only(a, b, m) ==
    LET r == get_inverse(a, m)
        d == r[1]
        a_inv == r[2]
    IN  IF Truthy(a_inv) THEN Some(<<IntMulMod(Val(a_inv), b, m)>>)
        ELSE IF PyMod(b, d) = 0
        THEN LET a2 == TrueDiv(a, d)
                 b2 == TrueDiv(b, d)
                 m2 == TrueDiv(m, d)
             IN  Some(<<FloatMulMod(b2, Val(get_inverse(a2, m2)[2]), m2)>>)
        ELSE None

solve_linear_comparison(a, b, m) ==
    LET r == get_inverse(a, m)
        d == r[1]
        a_inv == r[2]
    IN  IF Truthy(a_inv) THEN Some(<<IntMulMod(Val(a_inv), b, m)>>)
        ELSE IF PyMod(b, d) = 0
        THEN LET a2 == TrueDiv(a, d)
                 b2 == TrueDiv(b, d)
                 m2 == TrueDiv(m, d)
                 x0 == FloatMulMod(b2, Val(get_inverse(a2, m2)[2]), m2)
             IN  Some([i \in 1..d |-> x0 + (i - 1) * m2])
        ELSE None

(***************************************************************************)
(* The alphabet and strings.                                               *)
(***************************************************************************)
ALPHABET ==
    <<"a", "b", "v", "g", "d", "e", "zh", "z", "i", "j", "k", "l", "m", "n",
      "o", "p", "r", "s", "t", "u", "f", "h", "c", "ch", "sh", "shch", "soft",
      "y", "eh", "yu", "ya">>

MOST_FREQUENTLY_BIGRAMS ==
    << <<"s", "t">>, <<"n", "o">>, <<"t", "o">>, <<"n", "a">>, <<"e", "n">> >>

\* the hard sign: a Cyrillic letter that ALPHABET does not hold
HardSign == "hard"

\* ord(ch): the code points of ALPHABET's letters, in ALPHABET's order (the
\* soft sign, 1100, stands before yery, 1099), and of the hard sign
CodePoints ==
    <<1072, 1073, 1074, 1075, 1076, 1077, 1078, 1079, 1080, 1081, 1082, 1083,
      1084, 1085, 1086, 1087, 1088, 1089, 1090, 1091, 1092, 1093, 1094, 1095,
      1096, 1097, 1100, 1099, 1101, 1102, 1103>>

AlphabetLen == Len(ALPHABET)

\* len(ALPHABET) ** 2
Modulus == AlphabetLen * AlphabetLen

InAlphabet(ch) == \E i \in 1..AlphabetLen : ALPHABET[i] = ch

\* ALPHABET.index(ch), for ch in ALPHABET
Index(ch) == (CHOOSE i \in 1..AlphabetLen : ALPHABET[i] = ch) - 1

Ord(ch) == IF ch = HardSign THEN 1098 ELSE CodePoints[Index(ch) + 1]

RECURSIVE StrLess(_, _)
\* s < t of Python strings
StrLess(s, t) ==
    IF t = <<>> THEN FALSE
    ELSE IF s = <<>> THEN TRUE
    ELSE IF Ord(Head(s)) # Ord(Head(t)) THEN Ord(Head(s)) < Ord(Head(t))
    ELSE StrLess(Tail(s), Tail(t))

\* the outcome of a call: a returned value or a raised exception
Return(v) == [err |-> "none", val |-> v]

Raise(e) == [err |-> e, val |-> <<>>]

(***************************************************************************)
(* get_bigrams_frequency                                                   *)
(***************************************************************************)
\* the elements of a set of integers in ascending order
Ascending(P) ==
    [n \in 1..Cardinality(P) |->
        CHOOSE i \in P : Cardinality({ k \in P : k < i }) = n - 1]

\* the dict that counts at_[i] for the positions i of P in ascending order
\* (f_dict[k] += 1, or f_dict[k] = 1 for a new key): a dict keeps its keys in
\* the order of their insertion; its items are <<key, count>>
CountDict(P, at_) ==
    LET first == Ascending({ i \in P : \A k \in P : k < i => at_[k] # at_[i] })
    IN  [n \in 1..Len(first) |->
            <<at_[first[n]],
              Cardinality({ k \in P : at_[k] = at_[first[n]] })>>]

\* range(0, len(string) - 1, step)
BigramPositions(text, step) == { i \in 0..(Len(text) - 2) : i % step = 0 }

\* the for loop of get_bigrams_frequency
BigramLoop(text, step) ==
    CountDict(BigramPositions(text, step),
              [i \in 0..(Len(text) - 2) |-> <<text[i + 1], text[i + 2]>>])

\* the order with the keys of equal counts ascending
ItemGreater_KeyAscending(e, g) == e[2] > g[2] \/ (e[2] = g[2] /\ StrLess(e[1], g[1]))

\* (x[1], x[0]) of item e is greater than that of item g
ItemGreater(e, g) == e[2] > g[2] \/ (e[2] = g[2] /\ StrLess(g[1], e[1]))

\* sorted(items, k=lambda x: (x[1], x[0]), reverse=True); the keys of a
\* dict's items are pairwise different
SortedReverse(items) ==
    LET S == { items[i] : i \in 1..Len(items) }
    IN  [k \in 1..Len(items) |->
            CHOOSE e \in S : Cardinality({ g \in S : ItemGreater(g, e) }) = k - 1]

get_bigrams_frequency(text, step, sort) ==
    LET f_dict == BigramLoop(text, step)
    IN  IF ~sort THEN f_dict ELSE SortedReverse(f_dict)

(***************************************************************************)
(* get_entropy, check_text_correctness                                     *)
(***************************************************************************)
\* floor(10^6 * math.log2(k)) for k = 1..64
Log2Micro ==
    <<0, 1000000, 1584962, 2000000, 2321928, 2584962, 2807354, 3000000,
      3169925, 3321928, 3459431, 3584962, 3700439, 3807354, 3906890,
      4000000, 4087462, 4169925, 4247927, 4321928, 4392317, 4459431,
      4523561, 4584962, 4643856, 4700439, 4754887, 4807354, 4857980,
      4906890, 4954196, 5000000, 5044394, 5087462, 5129283, 5169925,
      5209453, 5247927, 5285402, 5321928, 5357552, 5392317, 5426264,
      5459431, 5491853, 5523561, 5554588, 5584962, 5614709, 5643856,
      5672425, 5700439, 5727920, 5754887, 5781359, 5807354, 5832890,
      5857980, 5882643, 5906890, 5930737, 5954196, 5977279, 6000000>>

Micro == 10 ^ 6

RECURSIVE SumRange(_, _, _)
\* q[lo] + ... + q[hi]
SumRange(q, lo, hi) ==
    IF lo > hi THEN 0
    ELSE IF lo = hi THEN q[lo]
    ELSE LET mid == (lo + hi) \div 2
         IN  SumRange(q, lo, mid) + SumRange(q, mid + 1, hi)

SumSeq(q) == SumRange(q, 1, Len(q))

\* power * 10^6 * get_entropy(f_list, power, n) * n, from below: each term
\* -f/power * log2(f/power) is f * (log2(power) - log2(f)) / power
EntropyMicro(f_items, power) ==
    SumSeq([i \in 1..Len(f_items) |->
              f_items[i][2] * (Log2Micro[power] - Log2Micro[f_items[i][2]])])

\* get_entropy(f_list, power, n) < tenths / 10 (the tabulated logarithms
\* are exact to 10^-6, which decides every comparison of the checked texts)
EntropyBelow(f_items, power, n, tenths) ==
    EntropyMicro(f_items, power) < tenths * n * power * (Micro \div 10)

SymbolEntropyTenths == 45

BigramEntropyTenths == 42

\* collections.Counter(string)
Counter(text) == CountDict(1..Len(text), text)

check_text_correctness(f_list_s, f_list_big, text_len) ==
    /\ EntropyBelow(f_list_s, text_len, 1, SymbolEntropyTenths)
    /\ EntropyBelow(f_list_big, text_len, 2, BigramEntropyTenths)

(***************************************************************************)
(* get_key1, get_key2, decrypt_from_affinity_sub                           *)
(***************************************************************************)
\* ALPHABET.index(bg[0]) * len(ALPHABET) + ALPHABET.index(bg[1])
BigramCode(bg) == Index(bg[1]) * AlphabetLen + Index(bg[2])

BigramInAlphabet(bg) == InAlphabet(bg[1]) /\ InAlphabet(bg[2])

\* get_key1 handing on the solver's results as they are
InvertibleInverses_Unfiltered(results) == results

\* [x for x in [get_inverse(i, len(ALPHABET) ** 2)[1] for i in results]
\*  if x is not None]
InvertibleInverses(results) ==
    LET inv == [k \in 1..Len(results) |-> get_inverse(results[k], Modulus)[2]]
        kept == SelectSeq(inv, LAMBDA o : o # None)
    IN  [k \in 1..Len(kept) |-> Val(kept[k])]

get_key1(x1, x2, y1, y2) ==
    IF ~(BigramInAlphabet(x1) /\ BigramInAlphabet(x2)
         /\ BigramInAlphabet(y1) /\ BigramInAlphabet(y2))
    THEN Raise("ValueError")
    ELSE LET results == solve_linear_comparison(BigramCode(y1) - BigramCode(y2),
                                                BigramCode(x1) - BigramCode(x2),
                                                Modulus)
         IN  IF results # None THEN Return(Some(InvertibleInverses(Val(results))))
             ELSE Return(None)

get_key2(x1, y1, a) ==
    IF ~(BigramInAlphabet(x1) /\ BigramInAlphabet(y1)) THEN Raise("ValueError")
    ELSE Return(PyMod(BigramCode(y1) - a * BigramCode(x1), Modulus))

\* a block decrypted with the shift added instead of subtracted
DecryptBlock_PlusShift(text, k, i) ==
    LET y == BigramCode(<<text[i + 1], text[i + 2]>>)
        x == PyMod(Val(get_inverse(k[1], Modulus)[2]) * (y + k[2]), Modulus)
    IN  Return(<<ALPHABET[(x \div AlphabetLen) + 1], ALPHABET[(x % AlphabetLen) + 1]>>)

\* one pass through the loop of decrypt_from_affinity_sub, for the block at
\* the 0-based position i: the two symbols it adds or the exception it raises
DecryptBlock(text, k, i) ==
    IF ~InAlphabet(text[i + 1]) THEN Raise("ValueError")
    ELSE IF i + 1 >= Len(text) THEN Raise("IndexError")
    ELSE IF ~InAlphabet(text[i + 2]) THEN Raise("ValueError")
    ELSE LET y == BigramCode(<<text[i + 1], text[i + 2]>>)
             inv == get_inverse(k[1], Modulus)[2]
         IN  IF inv = None THEN Raise("TypeError")
             ELSE LET x == PyMod(Val(inv) * (y - k[2]), Modulus)
                  IN  Return(<<ALPHABET[(x \div AlphabetLen) + 1],
                               ALPHABET[(x % AlphabetLen) + 1]>>)

\* the blocks in order: the first exception leaves the function
decrypt_from_affinity_sub(text, k) ==
    LET starts == { i \in 0..(Len(text) - 1) : i % 2 = 0 }
        block == [i \in starts |-> DecryptBlock(text, k, i)]
        failed == { i \in starts : block[i].err # "none" }
    IN  IF failed # {}
        THEN block[CHOOSE i \in failed : \A h \in failed : i <= h]
        ELSE Return([n \in 1..Len(text) |->
                        block[2 * ((n - 1) \div 2)].val[((n - 1) % 2) + 1]])

\* the cipher to break: every block X of two symbols becomes
\* Y = (a * X + b) mod len(ALPHABET) ** 2
EncryptBigram(bg, k) ==
    LET y == PyMod(k[1] * BigramCode(bg) + k[2], Modulus)
    IN  <<ALPHABET[(y \div AlphabetLen) + 1], ALPHABET[(y % AlphabetLen) + 1]>>

\* a text of even length, block by block
Encrypt(text, k) ==
    [n \in 1..Len(text) |->
        EncryptBigram(<<text[2 * ((n - 1) \div 2) + 1], text[2 * ((n - 1) \div 2) + 2]>>,
                      k)[((n - 1) % 2) + 1]]

(***************************************************************************)
(* The functions applied to drawn arguments.                               *)
(***************************************************************************)
SmallInts == (-MaxArg)..MaxArg

\* congruences whose reduced product b/d * inverse exceeds MantissaBits bits
WideCongruences ==
    { <<2 ^ 28 - 2, 2 ^ 28 + 2, 2 ^ 28>>,
      <<2 ^ 28 - 2, 2 ^ 28 + 4, 2 ^ 28>>,
      <<274036220, 566270386, 188173818>> }

\* the symbols of the drawn texts
TextSymbols == {"a", "y", "soft"}

RECURSIVE StringsOver(_, _)
\* the strings over the symbols S of length n
StringsOver(S, n) ==
    IF n = 0 THEN {<<>>}
    ELSE { Append(w, c) : w \in StringsOver(S, n - 1), c \in S }

Texts(S, maxlen) == UNION { StringsOver(S, n) : n \in 0..maxlen }

\* the symbols ALPHABET[start], ALPHABET[start + stride], ... (0-based,
\* wrapping around): a text of the given length with many different symbols
Progression(start, stride, length) ==
    [i \in 1..length |-> ALPHABET[((start + stride * (i - 1)) % AlphabetLen) + 1]]

LongTexts == { Progression(0, t, 2 * LongBlocks) : t \in 1..MaxStride }

Bigrams(S) == StringsOver(S, 2)

KeyUnits == { a \in (-MaxKey)..(Modulus + MaxKey) :
                a % AlphabetLen # 0 /\ (Abs(a) <= MaxKey \/ a >= Modulus - MaxKey) }

KeyShifts == (-MaxKey)..MaxKey \cup {Modulus - 1}

Keys == KeyUnits \X KeyShifts

GcdCalls == { [op |-> "gcd", args |-> <<b, n>>] : b \in SmallInts, n \in 0..MaxArg }

InverseCalls ==
    { [op |-> "get_inverse", args |-> <<a, m>>] : a \in SmallInts, m \in 1..MaxMod }

SolveCalls ==
    { [op |-> "solve", args |-> t] :
        t \in (SmallInts \X SmallInts \X (1..MaxMod)) \cup WideCongruences }

BigramCalls ==
    { [op |-> "bigrams", args |-> <<w, step, sort>>] :
        w \in Texts(TextSymbols, 2 * MaxBlocks + 1), step \in 1..2,
        sort \in BOOLEAN }

RoundTripCalls ==
    { [op |-> "roundtrip", args |-> <<w, k>>] :
        w \in { v \in Texts(TextSymbols, 2 * MaxBlocks) : Len(v) % 2 = 0 },
        k \in Keys }

Key1Calls ==
    { [op |-> "get_key1", args |-> <<x1, x2, k>>] :
        x1 \in Bigrams(TextSymbols), x2 \in Bigrams(TextSymbols),
        k \in { c \in Keys : c[1] \in 0..(Modulus - 1) } }

FnCalls ==
    GcdCalls \cup InverseCalls \cup SolveCalls \cup BigramCalls
      \cup RoundTripCalls \cup Key1Calls

\* gnc_keys is not running
RunIdle ==
    /\ string = <<>> /\ f_size = F_SIZE /\ check_bw = FALSE
    /\ pc = "idle"
    /\ f_list = <<>> /\ perm = 0 /\ j = 0 /\ key_1 = <<>> /\ sol = 0
    /\ key = <<>> /\ d_text = <<>>
    /\ stdout = <<>> /\ saved = None
    /\ raised = "none"
    /\ derived = <<>> /\ tried = <<>>

FnInit == fn \in FnCalls /\ fn_done = FALSE /\ fn_ret = <<>> /\ RunIdle

ApplyGcd ==
    /\ fn.op = "gcd" /\ ~fn_done
    /\ fn_ret' = gcd(fn.args[1], fn.args[2])
    /\ fn_done' = TRUE
    /\ UNCHANGED <<fn, run_vars>>

ApplyGetInverse ==
    /\ fn.op = "get_inverse" /\ ~fn_done
    /\ fn_ret' = get_inverse(fn.args[1], fn.args[2])
    /\ fn_done' = TRUE
    /\ UNCHANGED <<fn, run_vars>>

ApplySolve ==
    /\ fn.op = "solve" /\ ~fn_done
    /\ fn_ret' = solve_linear_comparison(fn.args[1], fn.args[2], fn.args[3])
    /\ fn_done' = TRUE
    /\ UNCHANGED <<fn, run_vars>>

ApplyBigrams ==
    /\ fn.op = "bigrams" /\ ~fn_done
    /\ fn_ret' = get_bigrams_frequency(fn.args[1], fn.args[2], fn.args[3])
    /\ fn_done' = TRUE
    /\ UNCHANGED <<fn, run_vars>>

\* a text is encrypted with a k and decrypted with the same k
ApplyRoundTrip ==
    /\ fn.op = "roundtrip" /\ ~fn_done
    /\ fn_ret' = decrypt_from_affinity_sub(Encrypt(fn.args[1], fn.args[2]), fn.args[2])
    /\ fn_done' = TRUE
    /\ UNCHANGED <<fn, run_vars>>

\* two plaintext bigrams and their ciphertext bigrams under a k
ApplyGetKey1 ==
    /\ fn.op = "get_key1" /\ ~fn_done
    /\ fn_ret' = get_key1(fn.args[1], fn.args[2],
                          EncryptBigram(fn.args[1], fn.args[3]),
                          EncryptBigram(fn.args[2], fn.args[3]))
    /\ fn_done' = TRUE
    /\ UNCHANGED <<fn, run_vars>>

FnNext ==
    \/ ApplyGcd
    \/ ApplyGetInverse
    \/ ApplySolve
    \/ ApplyBigrams
    \/ ApplyRoundTrip
    \/ ApplyGetKey1

SpecFn == FnInit /\ [][FnNext]_vars

(***************************************************************************)
(* gnc_keys: one step per pass through a loop body.                        *)
(***************************************************************************)
\* list(permutations(seq, 2)): the pairs of different positions of seq, the
\* first position outermost
Permutations2(seq) ==
    LET n == Len(seq)
    IN  [k \in 1..(n * (n - 1)) |->
            LET p == ((k - 1) \div (n - 1)) + 1
                r == ((k - 1) % (n - 1)) + 1
            IN  <<seq[p], seq[IF r < p THEN r ELSE r + 1]>>]

ReferencePairs == Permutations2(MOST_FREQUENTLY_BIGRAMS)

\* seq[:n], n >= 0
Prefix(seq, n) == SubSeq(seq, 1, IF n < Len(seq) THEN n ELSE Len(seq))

Ciphertexts == Texts(TextSymbols \cup {HardSign}, MaxLen) \cup LongTexts

FSizes == {2, F_SIZE}

Init ==
    /\ fn = [op |-> "gnc_keys", args |-> <<>>] /\ fn_done = FALSE /\ fn_ret = <<>>
    /\ string \in Ciphertexts /\ f_size \in FSizes /\ check_bw \in BOOLEAN
    /\ pc = "start"
    /\ f_list = <<>> /\ perm = 0 /\ j = 0 /\ key_1 = <<>> /\ sol = 0
    /\ key = <<>> /\ d_text = <<>>
    /\ stdout = <<>> /\ saved = None
    /\ raised = "none"
    /\ derived = <<>> /\ tried = <<>>

\* line 179: the frequency table, truncated
Start ==
    /\ pc = "start"
    /\ f_list' = Prefix(get_bigrams_frequency(string, 1, TRUE), f_size)
    /\ perm' = 1 /\ j' = 0
    /\ pc' = "enumerating"
    /\ UNCHANGED <<fn_vars, arg_vars, key_1, sol, key, d_text, out_vars, raised,
                   derived, tried>>

\* line 182: the inner range is used up, the next pair of reference bigrams
NextPair ==
    /\ pc = "enumerating"
    /\ perm <= Len(ReferencePairs)
    /\ j >= Len(f_list) - 1
    /\ perm' = perm + 1 /\ j' = 0
    /\ UNCHANGED <<fn_vars, arg_vars, pc, f_list, key_1, sol, key, d_text, out_vars,
                   raised, derived, tried>>

\* lines 183-186: get_key1 for the pair of reference bigrams and the table's
\* entries j and j + 1
DeriveKey ==
    /\ pc = "enumerating"
    /\ perm <= Len(ReferencePairs)
    /\ j < Len(f_list) - 1
    /\ LET i == ReferencePairs[perm]
           r == get_key1(i[1], i[2], f_list[j + 1][1], f_list[j + 2][1])
       IN  /\ derived' = Append(derived, <<perm, j>>)
           /\ IF r.err # "none"
              THEN /\ pc' = "raised" /\ raised' = r.err
                   /\ UNCHANGED <<j, key_1, sol>>
              ELSE IF r.val = None
              THEN /\ j' = j + 1
                   /\ UNCHANGED <<pc, raised, key_1, sol>>
              ELSE /\ key_1' = Val(r.val) /\ sol' = 1
                   /\ pc' = "solutions"
                   /\ UNCHANGED <<j, raised>>
    /\ UNCHANGED <<fn_vars, arg_vars, f_list, perm, key, d_text, out_vars, tried>>

\* line 188: the a-candidates are used up, the next j
EndSolutions ==
    /\ pc = "solutions"
    /\ sol > Len(key_1)
    /\ j' = j + 1
    /\ pc' = "enumerating"
    /\ UNCHANGED <<fn_vars, arg_vars, f_list, perm, key_1, sol, key, d_text,
                   out_vars, raised, derived, tried>>

\* the accepted key saved and printed, without the return
Accept_NoReturn(k, text, out) ==
    /\ saved' = Some(text)
    /\ stdout' = Append(out, <<"Key =", k>>)
    /\ pc' = "solutions"
    /\ sol' = sol + 1

\* lines 200-202: save_text, print('Key =', key), return
Accept(k, text, out) ==
    /\ saved' = Some(text)
    /\ stdout' = Append(out, <<"Key =", k>>)
    /\ pc' = "found"
    /\ sol' = sol

\* lines 189-202: one candidate key is derived, decrypted with and judged
TryKey ==
    /\ pc = "solutions"
    /\ sol <= Len(key_1)
    /\ LET i == ReferencePairs[perm]
           k2 == get_key2(i[1], f_list[j + 1][1], key_1[sol])
           k == <<key_1[sol], k2.val>>
           d == decrypt_from_affinity_sub(string, k)
       IN  IF k2.err # "none"
           THEN /\ pc' = "raised" /\ raised' = k2.err
                /\ UNCHANGED <<key, d_text, sol, out_vars, tried>>
           ELSE /\ key' = k
                /\ tried' = Append(tried, k)
                /\ IF d.err # "none"
                   THEN /\ pc' = "raised" /\ raised' = d.err
                        /\ UNCHANGED <<d_text, sol, out_vars>>
                   ELSE /\ d_text' = d.val
                        /\ raised' = raised
                        /\ IF check_text_correctness(
                                  Counter(d.val),
                                  get_bigrams_frequency(d.val, 1, FALSE),
                                  Len(d.val))
                           THEN IF check_bw
                                THEN /\ stdout' = stdout \o
                                          << <<"text", Prefix(d.val, PreviewLen)>>,
                                             <<"Save text (yes/no)? ">> >>
                                     /\ pc' = "ask"
                                     /\ UNCHANGED <<sol, saved>>
                                ELSE Accept(k, d.val, stdout)
                           ELSE /\ sol' = sol + 1
                                /\ UNCHANGED <<pc, out_vars>>
    /\ UNCHANGED <<fn_vars, arg_vars, f_list, perm, j, key_1, derived>>

\* lines 195, 199-202: the answer read from the user
Answer ==
    /\ pc = "ask"
    /\ \E answer \in {"yes", "no"} :
          IF answer = "yes"
          THEN Accept(key, d_text, stdout)
          ELSE /\ sol' = sol + 1
               /\ pc' = "solutions"
               /\ UNCHANGED out_vars
    /\ UNCHANGED <<fn_vars, arg_vars, f_list, perm, j, key_1, key, d_text, raised,
                   derived, tried>>

\* line 181: the pairs of reference bigrams are used up; gnc_keys returns
\* None past its last line
Exhaust ==
    /\ pc = "enumerating"
    /\ perm > Len(ReferencePairs)
    /\ pc' = "exhausted"
    /\ UNCHANGED <<fn_vars, arg_vars, loop_vars, key, d_text, out_vars, raised,
                   derived, tried>>

Next ==
    \/ Start
    \/ NextPair
    \/ DeriveKey
    \/ EndSolutions
    \/ TryKey
    \/ Answer
    \/ Exhaust

Spec == Init /\ [][Next]_vars

(***************************************************************************)
(* Mathematical reference notions used by the properties.                  *)
(***************************************************************************)
Divides(k, v) == k # 0 /\ v % k = 0

\* the greatest common divisor of the integers u and v (0 for u = v = 0)
GCD(u, v) ==
    IF u = 0 /\ v = 0 THEN 0
    ELSE CHOOSE k \in 1..(Abs(u) + Abs(v)) :
            /\ Divides(k, Abs(u)) /\ Divides(k, Abs(v))
            /\ \A l \in (k + 1)..(Abs(u) + Abs(v)) :
                   ~(Divides(l, Abs(u)) /\ Divides(l, Abs(v)))

RECURSIVE Euclid(_, _)
\* the same for u, v >= 0 of any size
Euclid(u, v) == IF v = 0 THEN u ELSE Euclid(v, u % v)

Coprime(u, v) == Euclid(Abs(u), Abs(v)) = 1

Elements(q) == { q[i] : i \in 1..Len(q) }

Called(op) == fn.op = op /\ fn_done

(***************************************************************************)
(* C9: extended Euclid.                                                    *)
(***************************************************************************)
\* C9: for every integer b and every n >= 0, gcd(b, n) returns (d, x) with d
\* the greatest common divisor of b and n, d >= 0, and b*x + n*y = d for
\* some integer y.
C9_GcdContract ==
    Called("gcd") =>
        LET b == fn.args[1]
            n == fn.args[2]
            d == fn_ret[1]
            x == fn_ret[2]
        IN  /\ d >= 0
            /\ d = GCD(b, n)
            /\ \E y \in (-(Abs(b) + 1))..(Abs(b) + 1) : b * x + n * y = d

(***************************************************************************)
(* C2: the modular inverse.                                                *)
(***************************************************************************)
InverseContract(a, m, r) ==
    IF GCD(a, m) = 1
    THEN r[1] = 1 /\ r[2] # None /\ (a * Val(r[2])) % m = 1
    ELSE r = <<GCD(a, m), None>>

\* C2 as stated: for all a and m with gcd(a, m) = 1, get_inverse(a, m)
\* returns (1, inv) with (a * inv) mod m = 1; for gcd(a, m) # 1 it returns
\* (gcd(a, m), None).
C2_Original ==
    Called("get_inverse") => InverseContract(fn.args[1], fn.args[2], fn_ret)

\* C2 amended: the same for every modulus m >= 2; for m = 1 get_inverse
\* returns (1, 0).
C2_Inverse ==
    Called("get_inverse") =>
        IF fn.args[2] >= 2 THEN InverseContract(fn.args[1], fn.args[2], fn_ret)
        ELSE fn_ret = <<1, Some(0)>>

\* a negative a with an inverse other than 1 modulo m >= 2
C2_Witness ==
    /\ Called("get_inverse") /\ fn.args[1] < 0 /\ fn.args[2] >= 2
    /\ fn_ret[2] # None /\ Val(fn_ret[2]) > 1

(***************************************************************************)
(* C1: the congruence solver.                                              *)
(***************************************************************************)
\* C1: for all integers a, b and every m >= 1, with d = gcd(a, m):
\* when d divides b, solve_linear_comparison(a, b, m) returns exactly d
\* different values x, each with (a*x - b) mod m = 0; otherwise it returns
\* None.
C1_SolverContract ==
    Called("solve") =>
        LET a == fn.args[1]
            b == fn.args[2]
            m == fn.args[3]
            d == Euclid(Abs(a), m)
        IN  IF b % d = 0
            THEN /\ fn_ret # None
                 /\ Len(Val(fn_ret)) = d
                 /\ Cardinality(Elements(Val(fn_ret))) = d
                 /\ \A x \in Elements(Val(fn_ret)) :
                        (IntMulMod(a, x, m) - (b % m)) % m = 0
            ELSE fn_ret = None

(***************************************************************************)
(* C3: decryption inverts encryption.                                      *)
(***************************************************************************)
\* C3: for every key (a, b) with gcd(a, A^2) = 1 and every text of even
\* length over the alphabet, decrypt_from_affinity_sub applied with the key
\* to the text encrypted with the key returns the text.
C3_RoundTrip ==
    Called("roundtrip") /\ Coprime(fn.args[2][1], Modulus) =>
        fn_ret = Return(fn.args[1])

\* two blocks, changed by the encryption, under a key with a # 1
C3_Witness ==
    /\ Called("roundtrip") /\ Coprime(fn.args[2][1], Modulus)
    /\ Len(fn.args[1]) = 4 /\ fn.args[2][1] > 1 /\ fn.args[2][2] # 0
    /\ Encrypt(fn.args[1], fn.args[2]) # fn.args[1]
    /\ fn_ret.err = "none"

(***************************************************************************)
(* C4: the true key is among the derived candidates.                       *)
(***************************************************************************)
\* C4: for every key (a, b) with gcd(a, A^2) = 1 and every two plaintext
\* bigrams X1, X2 with their ciphertext bigrams Y1, Y2, get_key1(X1, X2, Y1,
\* Y2) is not None and contains a.
C4_TrueKeyDerived ==
    Called("get_key1") /\ Coprime(fn.args[3][1], Modulus) =>
        /\ fn_ret.err = "none"
        /\ fn_ret.val # None
        /\ fn.args[3][1] \in Elements(Val(fn_ret.val))

\* the congruence has several solutions, the key is not its own inverse
C4_Witness ==
    /\ Called("get_key1") /\ fn.args[1] # fn.args[2]
    /\ fn_ret.err = "none" /\ fn_ret.val # None
    /\ Len(Val(fn_ret.val)) > 1
    /\ (fn.args[3][1] * fn.args[3][1]) % Modulus # 1

Final == pc \in {"found", "exhausted", "raised"}

WellFormed(text) ==
    Len(text) % 2 = 0 /\ \A i \in 1..Len(text) : InAlphabet(text[i])

\* the ordered pairs <<p, q>> of different positions of the reference
\* bigrams, the first position outermost
OrderedPairs ==
    LET n == Len(MOST_FREQUENTLY_BIGRAMS)
        code == { p * (n + 1) + q : p \in 1..n, q \in 1..n }
        asc == Ascending({ c \in code : c \div (n + 1) # c % (n + 1) })
    IN  [k \in 1..Len(asc) |-> <<asc[k] \div (n + 1), asc[k] % (n + 1)>>]

\* the slots <<pair, j>> in the order of the search: pairs outermost, the
\* adjacent entries j, j + 1 of the table inside
Slots(table) ==
    LET w == IF Len(table) >= 2 THEN Len(table) - 1 ELSE 0
    IN  [k \in 1..(Len(OrderedPairs) * w) |->
            <<((k - 1) \div w) + 1, (k - 1) % w>>]

\* the candidate keys of a slot in the solver's order, each with its slot
SlotKeys(table, slot) ==
    LET x1 == MOST_FREQUENTLY_BIGRAMS[OrderedPairs[slot[1]][1]]
        x2 == MOST_FREQUENTLY_BIGRAMS[OrderedPairs[slot[1]][2]]
        y1 == table[slot[2] + 1][1]
        y2 == table[slot[2] + 2][1]
        r == get_key1(x1, x2, y1, y2)
    IN  IF r.err # "none" \/ r.val = None THEN <<>>
        ELSE [n \in 1..Len(Val(r.val)) |->
                [slot |-> slot,
                 key |-> <<Val(r.val)[n],
                           (BigramCode(y1) - Val(r.val)[n] * BigramCode(x1))
                              % Modulus>>]]

RECURSIVE Concat(_, _, _)
\* q[lo] \o ... \o q[hi]
Concat(q, lo, hi) ==
    IF lo > hi THEN <<>>
    ELSE IF lo = hi THEN q[lo]
    ELSE LET mid == (lo + hi) \div 2
         IN  Concat(q, lo, mid) \o Concat(q, mid + 1, hi)

\* the candidates of the whole search, in its order
Candidates ==
    LET table == Prefix(get_bigrams_frequency(string, 1, TRUE), f_size)
        slots == Slots(table)
    IN  Concat([k \in 1..Len(slots) |-> SlotKeys(table, slots[k])], 1, Len(slots))

AllSlots == Slots(Prefix(get_bigrams_frequency(string, 1, TRUE), f_size))

KeysOf(cands) == [n \in 1..Len(cands) |-> cands[n].key]

Plausible(k) ==
    LET d == decrypt_from_affinity_sub(string, k)
    IN  /\ d.err = "none"
        /\ check_text_correctness(Counter(d.val),
                                  get_bigrams_frequency(d.val, 1, FALSE),
                                  Len(d.val))

KeyLines == { i \in 1..Len(stdout) : stdout[i][1] = "Key =" }

FailureSignalled == \E i \in 1..Len(stdout) : stdout[i][1] = "no key found"

\* C7: if no candidate's decryption is plausible, gnc_keys tries every
\* combination, emits no key and no text, and ends exhausted with an
\* explicit "no key found" signal that tells the outcome from success.
C7_ExhaustedSignalled ==
    pc = "exhausted" =>
        /\ derived = AllSlots
        /\ tried = KeysOf(Candidates)
        /\ saved = None /\ KeyLines = {}
        /\ FailureSignalled

(***************************************************************************)
(* C8: malformed ciphertext.                                               *)
(***************************************************************************)
\* C8: for malformed ciphertext (a symbol outside the alphabet, or odd
\* length) gnc_keys fails with an error before the search begins: no key is
\* derived, no candidate decrypted or emitted, and the run never ends
\* without an error.
C8_FailFast ==
    pc # "idle" /\ ~WellFormed(string) =>
        /\ derived = <<>> /\ tried = <<>> /\ saved = None /\ KeyLines = {}
        /\ Final => pc = "raised"

====
